---- MODULE Spec2Model ----
(***************************************************************************)
(* State-orchestration layer of the Deep Researcher console (src/App.tsx). *)
(* The component state of App, the requests it has in flight and the       *)
(* banner timers it has scheduled form the state; every event handler and  *)
(* every continuation after an await is one action.                        *)
(***************************************************************************)
EXTENDS Integers, Sequences, FiniteSets

(* ------------------------------ bounds -------------------------------- *)

\* research requests issued in one behaviour
MaxResearch == 2
\* suggestion requests issued in one behaviour
MaxSuggest == 2
\* upload requests issued in one behaviour
MaxUploads == 2
\* longest suggestion list the backend returns
MaxItems == 1

(* --------------------------- program constants ------------------------ *)

\* max_sources of the research request body
MaxSources == 10
\* getSuggestions returns early below this length
MinSuggestLen == 3

(* ------------------------------ values -------------------------------- *)

\* a text is a sequence of characters; " " is the whitespace character
Chars == {"a", " "}

\* the texts typed and suggested: empty, blank and plain, shorter than the
\* suggestion threshold and not
Texts ==
    { <<>>, <<" ">>, <<"a">>,
      <<" ", " ", " ">>, <<" ", "a", " ">>, <<"a", "a", "a">> }

RECURSIVE trimStart(_)
trimStart(s) ==
    IF s = <<>> THEN s
    ELSE IF Head(s) = " " THEN trimStart(Tail(s)) ELSE s

RECURSIVE trimEnd(_)
trimEnd(s) ==
    IF s = <<>> THEN s
    ELSE IF s[Len(s)] = " " THEN trimEnd(SubSeq(s, 1, Len(s) - 1)) ELSE s

\* String.prototype.trim
trim(s) == trimEnd(trimStart(s))

\* !searchQuery.trim() : the empty string is the only falsy string
Blank(s) == trim(s) = <<>>

\* useState<ResearchResult | null>(null)
Null == [null |-> TRUE]

\* bodies the research endpoint answers with
ResearchResult ==
    { [success |-> TRUE,
       research_report |->
           [summary |-> "s1", key_findings |-> <<"k1", "k2">>,
            sources |-> <<[title |-> "t1", content |-> "c1"]>>]],
      [success |-> TRUE,
       research_report |->
           [summary |-> "s2", key_findings |-> <<>>,
            sources |-> <<>>]] }

\* rows the suggestion endpoint answers with: one plain, one blank
SuggestionItem ==
    { [suggested_query |-> q] : q \in {t \in Texts : Len(t) = 1} }

SuggestionLists == UNION {[1..n -> SuggestionItem] : n \in 0..MaxItems}

\* bodies the suggestion endpoint answers with
Suggestion == [success : BOOLEAN, suggestions : SuggestionLists]

\* a selection of the file input
FileLists == {<<>>, <<"f1">>, <<"f2">>, <<"f2", "f1">>}

\* s without its i-th element
RemoveAt(s, i) == SubSeq(s, 1, i - 1) \o SubSeq(s, i + 1, Len(s))

(* ------------------------------ state --------------------------------- *)

VARIABLES
    query, isLoading, results, suggestions, showSuggestions,
    uploadedFiles, isUploading, uploadSuccess,
    research,        \* research requests in flight, in issue order
    suggest,         \* suggestion requests in flight, in issue order
    ingest,          \* upload requests in flight, in issue order
    timers,          \* banner-clear timers pending
    researchIssued, suggestIssued, ingestIssued,
    sinceApplied,    \* "never" applied a suggestion response, "applied"
                     \* one and not submitted since, or "submitted" since
    lastSettled,     \* how the suggestion request that settled last ended
    overtaken,       \* per suggestion request in flight: did a request
                     \* issued after it settle already
    ev               \* the handler that ran last and what it raised

queryVars == <<query, isLoading, results, suggestions, showSuggestions>>
uploadVars == <<uploadedFiles, isUploading, uploadSuccess>>
netVars == <<research, suggest, ingest, timers>>
countVars == <<researchIssued, suggestIssued, ingestIssued>>
histVars == <<sinceApplied, lastSettled, overtaken>>
vars == <<queryVars, uploadVars, netVars, countVars, histVars, ev>>

Event(op, alert) == [op |-> op, alert |-> alert]

Init ==
    /\ query = <<>>
    /\ isLoading = FALSE
    /\ results = Null
    /\ suggestions = <<>>
    /\ showSuggestions = FALSE
    /\ uploadedFiles = <<>>
    /\ isUploading = FALSE
    /\ uploadSuccess = FALSE
    /\ research = <<>>
    /\ suggest = <<>>
    /\ ingest = <<>>
    /\ timers = 0
    /\ researchIssued = 0
    /\ suggestIssued = 0
    /\ ingestIssued = 0
    /\ sinceApplied = "never"
    /\ lastSettled = "none"
    /\ overtaken = <<>>
    /\ ev = Event("init", "none")

(* ------------------------- research session --------------------------- *)

\* handleSearch without setShowSuggestions(false)
handleSearch_KeepsOverlay(searchQuery, shown) ==
    IF Blank(searchQuery)
    THEN /\ showSuggestions' = shown
         /\ UNCHANGED <<isLoading, results, suggestions, research,
                        researchIssued, sinceApplied>>
    ELSE /\ isLoading' = TRUE
         /\ results' = Null
         /\ suggestions' = <<>>
         /\ showSuggestions' = shown
         /\ research' = Append(research,
                [query |-> searchQuery, max_sources |-> MaxSources])
         /\ researchIssued' = researchIssued + 1
         /\ sinceApplied' =
                IF sinceApplied = "never" THEN "never" ELSE "submitted"

\* handleSearch testing !searchQuery instead of !searchQuery.trim()
handleSearch_NoTrim(searchQuery, shown) ==
    IF searchQuery = <<>>
    THEN /\ showSuggestions' = shown
         /\ UNCHANGED <<isLoading, results, suggestions, research,
                        researchIssued, sinceApplied>>
    ELSE /\ isLoading' = TRUE
         /\ results' = Null
         /\ suggestions' = <<>>
         /\ showSuggestions' = FALSE
         /\ research' = Append(research,
                [query |-> searchQuery, max_sources |-> MaxSources])
         /\ researchIssued' = researchIssued + 1
         /\ sinceApplied' =
                IF sinceApplied = "never" THEN "never" ELSE "submitted"

\* handleSearch without setSuggestions([])
handleSearch_KeepsSuggestions(searchQuery, shown) ==
    IF Blank(searchQuery)
    THEN /\ showSuggestions' = shown
         /\ UNCHANGED <<isLoading, results, suggestions, research,
                        researchIssued, sinceApplied>>
    ELSE /\ isLoading' = TRUE
         /\ results' = Null
         /\ UNCHANGED suggestions
         /\ showSuggestions' = FALSE
         /\ research' = Append(research,
                [query |-> searchQuery, max_sources |-> MaxSources])
         /\ researchIssued' = researchIssued + 1
         /\ sinceApplied' =
                IF sinceApplied = "never" THEN "never" ELSE "submitted"

\* handleSearch, up to the await. shown is the value showSuggestions has
\* when the call is made (handleSuggestionClick has just set it).
handleSearch(searchQuery, shown) ==
    IF Blank(searchQuery)
    THEN /\ showSuggestions' = shown
         /\ UNCHANGED <<isLoading, results, suggestions, research,
                        researchIssued, sinceApplied>>
    ELSE /\ isLoading' = TRUE
         /\ results' = Null
         /\ suggestions' = <<>>
         /\ showSuggestions' = FALSE
         /\ research' = Append(research,
                [query |-> searchQuery, max_sources |-> MaxSources])
         /\ researchIssued' = researchIssued + 1
         /\ sinceApplied' =
                IF sinceApplied = "never" THEN "never" ELSE "submitted"

\* the model issues at most MaxResearch research requests
MayIssue(searchQuery) == Blank(searchQuery) \/ researchIssued < MaxResearch

\* onKeyPress of a textarea that is not disabled while loading
handleKeyPress_NotDisabled(key, shiftKey) ==
    /\ IF key = "Enter" /\ ~shiftKey
       THEN /\ MayIssue(query)
            /\ handleSearch(query, showSuggestions)
            /\ ev' = Event("enter", "none")
       ELSE /\ UNCHANGED <<isLoading, results, suggestions, showSuggestions,
                           research, researchIssued, sinceApplied>>
            /\ ev' = Event("key", "none")
    /\ UNCHANGED <<query, uploadVars, suggest, ingest, timers,
                   suggestIssued, ingestIssued, lastSettled, overtaken>>

\* onKeyPress of the textarea; a disabled textarea gets no key events
handleKeyPress(key, shiftKey) ==
    /\ ~isLoading
    /\ IF key = "Enter" /\ ~shiftKey
       THEN /\ MayIssue(query)
            /\ handleSearch(query, showSuggestions)
            /\ ev' = Event("enter", "none")
       ELSE /\ UNCHANGED <<isLoading, results, suggestions, showSuggestions,
                           research, researchIssued, sinceApplied>>
            /\ ev' = Event("key", "none")
    /\ UNCHANGED <<query, uploadVars, suggest, ingest, timers,
                   suggestIssued, ingestIssued, lastSettled, overtaken>>

\* onClick of the send button, which is disabled while loading or blank
SendClick ==
    /\ ~(isLoading \/ Blank(query))
    /\ MayIssue(query)
    /\ handleSearch(query, showSuggestions)
    /\ ev' = Event("send", "none")
    /\ UNCHANGED <<query, uploadVars, suggest, ingest, timers,
                   suggestIssued, ingestIssued, lastSettled, overtaken>>

\* handleSuggestionClick calling handleSearch() with the query of the render
handleSuggestionClick_StaleQuery(i) ==
    /\ showSuggestions /\ Len(suggestions) > 0
    /\ i \in 1..Len(suggestions)
    /\ MayIssue(query)
    /\ query' = suggestions[i].suggested_query
    /\ handleSearch(query, FALSE)
    /\ ev' = Event("click", "none")
    /\ UNCHANGED <<uploadVars, suggest, ingest, timers,
                   suggestIssued, ingestIssued, lastSettled, overtaken>>

\* the overlay is rendered when showSuggestions && suggestions.length > 0
handleSuggestionClick(i) ==
    /\ showSuggestions /\ Len(suggestions) > 0
    /\ i \in 1..Len(suggestions)
    /\ MayIssue(suggestions[i].suggested_query)
    /\ query' = suggestions[i].suggested_query
    /\ handleSearch(suggestions[i].suggested_query, FALSE)
    /\ ev' = Event("click", "none")
    /\ UNCHANGED <<uploadVars, suggest, ingest, timers,
                   suggestIssued, ingestIssued, lastSettled, overtaken>>

\* handleSearch with setIsLoading(false) only in the catch block
ResearchResolve_KeepsLoading(i, data) ==
    /\ i \in 1..Len(research)
    /\ results' = data
    /\ research' = RemoveAt(research, i)
    /\ ev' = Event("researchOk", "none")
    /\ UNCHANGED <<query, isLoading, suggestions, showSuggestions, uploadVars,
                   suggest, ingest, timers, countVars, histVars>>

\* handleSearch after the await: the request resolved with response.data
ResearchResolve(i, data) ==
    /\ i \in 1..Len(research)
    /\ results' = data
    /\ isLoading' = FALSE
    /\ research' = RemoveAt(research, i)
    /\ ev' = Event("researchOk", "none")
    /\ UNCHANGED <<query, suggestions, showSuggestions, uploadVars,
                   suggest, ingest, timers, countVars, histVars>>

\* handleSearch with setIsLoading(false) after setResults, not in finally
ResearchReject_KeepsLoading(i) ==
    /\ i \in 1..Len(research)
    /\ research' = RemoveAt(research, i)
    /\ ev' = Event("researchFail", "research")
    /\ UNCHANGED <<queryVars, uploadVars,
                   suggest, ingest, timers, countVars, histVars>>

\* handleSearch after the await: axios threw (network error or non-2xx)
ResearchReject(i) ==
    /\ i \in 1..Len(research)
    /\ isLoading' = FALSE
    /\ research' = RemoveAt(research, i)
    /\ ev' = Event("researchFail", "research")
    /\ UNCHANGED <<query, results, suggestions, showSuggestions, uploadVars,
                   suggest, ingest, timers, countVars, histVars>>

(* ------------------------- suggestion engine -------------------------- *)

\* getSuggestions measuring the trimmed text
getSuggestions_Trimmed(searchQuery) ==
    IF Len(trim(searchQuery)) < MinSuggestLen
    THEN UNCHANGED <<suggest, suggestIssued, overtaken>>
    ELSE /\ suggest' = Append(suggest, [query |-> searchQuery])
         /\ suggestIssued' = suggestIssued + 1
         /\ overtaken' = Append(overtaken, FALSE)

\* getSuggestions, up to the await
getSuggestions(searchQuery) ==
    IF Len(searchQuery) < MinSuggestLen
    THEN UNCHANGED <<suggest, suggestIssued, overtaken>>
    ELSE /\ suggest' = Append(suggest, [query |-> searchQuery])
         /\ suggestIssued' = suggestIssued + 1
         /\ overtaken' = Append(overtaken, FALSE)

\* onChange of the textarea; a disabled textarea cannot be edited
handleQueryChange(value) ==
    /\ ~isLoading
    /\ Len(value) < MinSuggestLen \/ suggestIssued < MaxSuggest
    /\ query' = value
    /\ getSuggestions(value)
    /\ ev' = Event("change", "none")
    /\ UNCHANGED <<isLoading, results, suggestions, showSuggestions,
                   uploadVars, research, ingest, timers,
                   researchIssued, ingestIssued, sinceApplied, lastSettled>>

\* the requests in flight once the i-th has settled: those issued before
\* it have been overtaken
Overtake(i) ==
    RemoveAt([j \in 1..Len(overtaken) |-> j < i \/ overtaken[j]], i)

\* getSuggestions dropping the response of a request that a later one
\* has overtaken
SuggestResolve_LatestOnly(i, data) ==
    /\ i \in 1..Len(suggest)
    /\ IF data.success /\ ~overtaken[i]
       THEN /\ suggestions' = data.suggestions
            /\ showSuggestions' = TRUE
            /\ sinceApplied' = "applied"
            /\ lastSettled' = IF data.suggestions = <<>> THEN "empty" ELSE "rows"
            /\ ev' = [op |-> "suggestOk", alert |-> "none",
                      stale |-> overtaken[i]]
       ELSE /\ UNCHANGED <<suggestions, showSuggestions, sinceApplied>>
            /\ lastSettled' = "refused"
            /\ ev' = Event("suggestRefused", "none")
    /\ suggest' = RemoveAt(suggest, i)
    /\ overtaken' = Overtake(i)
    /\ UNCHANGED <<query, isLoading, results, uploadVars,
                   research, ingest, timers, countVars>>

\* getSuggestions after the await: the request resolved with response.data
SuggestResolve(i, data) ==
    /\ i \in 1..Len(suggest)
    /\ IF data.success
       THEN /\ suggestions' = data.suggestions
            /\ showSuggestions' = TRUE
            /\ sinceApplied' = "applied"
            /\ lastSettled' = IF data.suggestions = <<>> THEN "empty" ELSE "rows"
            /\ ev' = [op |-> "suggestOk", alert |-> "none",
                      stale |-> overtaken[i]]
       ELSE /\ UNCHANGED <<suggestions, showSuggestions, sinceApplied>>
            /\ lastSettled' = "refused"
            /\ ev' = Event("suggestRefused", "none")
    /\ suggest' = RemoveAt(suggest, i)
    /\ overtaken' = Overtake(i)
    /\ UNCHANGED <<query, isLoading, results, uploadVars,
                   research, ingest, timers, countVars>>

\* getSuggestions hiding the overlay in its catch block
SuggestReject_HidesOverlay(i) ==
    /\ i \in 1..Len(suggest)
    /\ suggest' = RemoveAt(suggest, i)
    /\ overtaken' = Overtake(i)
    /\ showSuggestions' = FALSE
    /\ lastSettled' = "error"
    /\ ev' = Event("suggestError", "none")
    /\ UNCHANGED <<query, isLoading, results, suggestions, uploadVars,
                   research, ingest, timers, countVars, sinceApplied>>

\* getSuggestions after the await: axios threw; the error is only logged
SuggestReject(i) ==
    /\ i \in 1..Len(suggest)
    /\ suggest' = RemoveAt(suggest, i)
    /\ overtaken' = Overtake(i)
    /\ lastSettled' = "error"
    /\ ev' = Event("suggestError", "none")
    /\ UNCHANGED <<queryVars, uploadVars, research, ingest, timers,
                   countVars, sinceApplied>>

(* --------------------------- upload manager --------------------------- *)

\* handleFileUpload discarding the report when documents are added
handleFileUpload_ClearsResults(files) ==
    /\ ~isUploading
    /\ IF Len(files) = 0
       THEN UNCHANGED <<isUploading, uploadSuccess, ingest, ingestIssued,
                        results>>
       ELSE /\ ingestIssued < MaxUploads
            /\ isUploading' = TRUE
            /\ uploadSuccess' = FALSE
            /\ results' = Null
            /\ ingest' = Append(ingest, files)
            /\ ingestIssued' = ingestIssued + 1
    /\ ev' = Event("upload", "none")
    /\ UNCHANGED <<query, isLoading, suggestions, showSuggestions,
                   uploadedFiles, research, suggest, timers,
                   researchIssued, suggestIssued, histVars>>

\* handleFileUpload calling clearTimeout on the pending banner timers
handleFileUpload_ClearsTimers(files) ==
    /\ ~isUploading
    /\ IF Len(files) = 0
       THEN UNCHANGED <<isUploading, uploadSuccess, ingest, ingestIssued,
                        timers>>
       ELSE /\ ingestIssued < MaxUploads
            /\ isUploading' = TRUE
            /\ uploadSuccess' = FALSE
            /\ timers' = 0
            /\ ingest' = Append(ingest, files)
            /\ ingestIssued' = ingestIssued + 1
    /\ ev' = Event("upload", "none")
    /\ UNCHANGED <<queryVars, uploadedFiles, research, suggest,
                   researchIssued, suggestIssued, histVars>>

\* handleFileUpload, up to the await; the upload button is disabled
\* while isUploading
handleFileUpload(files) ==
    /\ ~isUploading
    /\ IF Len(files) = 0
       THEN UNCHANGED <<isUploading, uploadSuccess, ingest, ingestIssued>>
       ELSE /\ ingestIssued < MaxUploads
            /\ isUploading' = TRUE
            /\ uploadSuccess' = FALSE
            /\ ingest' = Append(ingest, files)
            /\ ingestIssued' = ingestIssued + 1
    /\ ev' = Event("upload", "none")
    /\ UNCHANGED <<queryVars, uploadedFiles, research, suggest, timers,
                   researchIssued, suggestIssued, histVars>>

\* handleFileUpload without the setTimeout
IngestResolve_NoTimer(i, success) ==
    /\ i \in 1..Len(ingest)
    /\ IF success
       THEN /\ uploadedFiles' = uploadedFiles \o ingest[i]
            /\ uploadSuccess' = TRUE
            /\ UNCHANGED timers
            /\ ev' = Event("ingestOk", "none")
       ELSE /\ UNCHANGED <<uploadedFiles, uploadSuccess, timers>>
            /\ ev' = Event("ingestRefused", "none")
    /\ isUploading' = FALSE
    /\ ingest' = RemoveAt(ingest, i)
    /\ UNCHANGED <<queryVars, research, suggest, countVars, histVars>>

\* handleFileUpload with setUploadedFiles(Array.from(files))
IngestResolve_Replaces(i, success) ==
    /\ i \in 1..Len(ingest)
    /\ IF success
       THEN /\ uploadedFiles' = ingest[i]
            /\ uploadSuccess' = TRUE
            /\ timers' = timers + 1
            /\ ev' = Event("ingestOk", "none")
       ELSE /\ UNCHANGED <<uploadedFiles, uploadSuccess, timers>>
            /\ ev' = Event("ingestRefused", "none")
    /\ isUploading' = FALSE
    /\ ingest' = RemoveAt(ingest, i)
    /\ UNCHANGED <<queryVars, research, suggest, countVars, histVars>>

\* handleFileUpload after the await: the request resolved with
\* response.data.success = success
IngestResolve(i, success) ==
    /\ i \in 1..Len(ingest)
    /\ IF success
       THEN /\ uploadedFiles' = uploadedFiles \o ingest[i]
            /\ uploadSuccess' = TRUE
            /\ timers' = timers + 1
            /\ ev' = Event("ingestOk", "none")
       ELSE /\ UNCHANGED <<uploadedFiles, uploadSuccess, timers>>
            /\ ev' = Event("ingestRefused", "none")
    /\ isUploading' = FALSE
    /\ ingest' = RemoveAt(ingest, i)
    /\ UNCHANGED <<queryVars, research, suggest, countVars, histVars>>

\* handleFileUpload after the await: axios threw
IngestReject(i) ==
    /\ i \in 1..Len(ingest)
    /\ isUploading' = FALSE
    /\ ingest' = RemoveAt(ingest, i)
    /\ ev' = Event("ingestError", "upload")
    /\ UNCHANGED <<queryVars, uploadedFiles, uploadSuccess, research,
                   suggest, timers, countVars, histVars>>

\* the callback of setTimeout(() => setUploadSuccess(false), 3000)
TimerFire ==
    /\ timers > 0
    /\ uploadSuccess' = FALSE
    /\ timers' = timers - 1
    /\ ev' = Event("timer", "none")
    /\ UNCHANGED <<queryVars, uploadedFiles, isUploading, research, suggest,
                   ingest, countVars, histVars>>

(* ---------------------------- export module --------------------------- *)

\* format: 'pdf' | 'markdown' | 'json'
Formats == {"pdf", "markdown", "json"}

\* a text is kept as its lines (the text between two "\n" of the
\* template), a line as the pieces it is put together from
Bullets(findings) == [i \in 1..Len(findings) |-> <<"- ", findings[i]>>]

\* Array.prototype.join('\n'): no element gives the empty string, which is
\* one empty line
JoinLines(lines) == IF lines = <<>> THEN << <<>> >> ELSE lines

\* the template with the sources written out as well
ReportText_WithSources(report) ==
    << <<"# Research Report">>, <<>>, <<report.summary>>, <<>>,
       <<"## Key Findings">> >>
        \o JoinLines(Bullets(report.key_findings))
        \o [i \in 1..Len(report.sources) |->
                <<report.sources[i].title, report.sources[i].content>>]

\* `# Research Report\n\n${summary}\n\n## Key Findings\n${...join('\n')}`
ReportText(report) ==
    << <<"# Research Report">>, <<>>, <<report.summary>>, <<>>,
       <<"## Key Findings">> >>
        \o JoinLines(Bullets(report.key_findings))

\* JSON.stringify(results, null, 2), kept as the value it serialises
JsonText(result) == [json |-> result, indent |-> 2]

NoDownload == [download |-> FALSE]

\* what exportReport hands to the browser
Download(result, format) ==
    IF result = Null
    THEN NoDownload
    ELSE [download |-> TRUE,
          name |-> <<"research-report.", format>>,
          type |-> "text/plain",
          content |-> IF format = "json"
                      THEN JsonText(result)
                      ELSE ReportText(result.research_report)]

\* onClick of an export button; the buttons are part of the results panel
exportReport(format) ==
    /\ results # Null
    /\ ev' = [op |-> "export", alert |-> "none",
              download |-> Download(results, format)]
    /\ UNCHANGED <<queryVars, uploadVars, netVars, countVars, histVars>>

(* --------------------------- specifications --------------------------- *)

Keys == {"Enter", "a"}

NextQuery ==
    \/ \E value \in Texts : handleQueryChange(value)
    \/ \E key \in Keys, shiftKey \in BOOLEAN : handleKeyPress(key, shiftKey)
    \/ SendClick
    \/ \E i \in 1..MaxItems : handleSuggestionClick(i)
    \/ \E i \in 1..MaxResearch, data \in ResearchResult : ResearchResolve(i, data)
    \/ \E i \in 1..MaxResearch : ResearchReject(i)
    \/ \E i \in 1..MaxSuggest, data \in Suggestion : SuggestResolve(i, data)
    \/ \E i \in 1..MaxSuggest : SuggestReject(i)

NextUpload ==
    \/ \E files \in FileLists : handleFileUpload(files)
    \/ \E i \in 1..MaxUploads, success \in BOOLEAN : IngestResolve(i, success)
    \/ \E i \in 1..MaxUploads : IngestReject(i)
    \/ TimerFire

NextExport == \E format \in Formats : exportReport(format)

Next == NextQuery \/ NextUpload \/ NextExport

Spec == Init /\ [][Next]_vars

\* the query side alone: no document is uploaded
SpecQuery == Init /\ [][NextQuery]_vars

\* the query side with the export buttons of the results panel
SpecExport == Init /\ [][NextQuery \/ NextExport]_vars

TypeOK ==
    /\ query \in Texts
    /\ isLoading \in BOOLEAN
    /\ results \in ResearchResult \cup {Null}
    /\ suggestions \in SuggestionLists
    /\ showSuggestions \in BOOLEAN
    /\ isUploading \in BOOLEAN
    /\ uploadSuccess \in BOOLEAN
    /\ timers \in 0..MaxUploads
    /\ researchIssued \in 0..MaxResearch
    /\ suggestIssued \in 0..MaxSuggest
    /\ ingestIssued \in 0..MaxUploads

(* ------------------------------ render -------------------------------- *)

\* {isLoading && (...)}
LoadingShown == isLoading

\* {results && (...)}
ResultsShown == results # Null

\* {!results && !isLoading && (...)}
WelcomeShown == results = Null /\ ~isLoading

\* {showSuggestions && suggestions.length > 0 && (...)}
OverlayShown == showSuggestions /\ Len(suggestions) > 0

PanelsShown ==
    (IF LoadingShown THEN {"loading"} ELSE {})
        \cup (IF ResultsShown THEN {"results"} ELSE {})
        \cup (IF WelcomeShown THEN {"welcome"} ELSE {})

(* ------------------------------ claims -------------------------------- *)

\* C1: when a research request completes successfully, results is its
\* response, isLoading is false, suggestions is empty and showSuggestions
\* is false.
C1_SuccessLeavesNoSuggestions ==
    [][\A i \in 1..MaxResearch, data \in ResearchResult :
          ResearchResolve(i, data) =>
              /\ results' = data
              /\ ~isLoading'
              /\ suggestions' = <<>>
              /\ ~showSuggestions']_vars

\* C2: exactly one of the loading indicator, the results panel and the
\* welcome panel is shown, and isLoading never holds with results present.
C2_ExactlyOnePanel ==
    /\ Cardinality(PanelsShown) = 1
    /\ ~(isLoading /\ results # Null)

\* a response arrives while a later request is still in flight
C2_Witness ==
    /\ ev.op = "researchOk"
    /\ Len(research) > 0
    /\ PanelsShown = {"results"}

\* C3 as stated: showSuggestions implies that the suggestion fetch that
\* settled last succeeded with a non-empty sequence and that no research
\* was submitted since it was applied.
C3_ShownOnlyAfterLastFetchRows ==
    showSuggestions => lastSettled = "rows" /\ sinceApplied = "applied"

\* C3, amended: showSuggestions implies that a suggestion fetch settled
\* with success=true and that no research was submitted since the latest
\* such response was applied.
C3_ShownOnlyAfterAppliedResponse ==
    showSuggestions => sinceApplied = "applied"

\* after a submission, a response is applied and a later fetch fails
C3_Witness ==
    /\ showSuggestions
    /\ researchIssued > 0
    /\ lastSettled = "error"

\* C4: isLoading is true whenever a research request is in flight.
C4_LoadingWhileInFlight == Len(research) > 0 => isLoading

\* C5: a submit of blank text issues no research request and leaves
\* isLoading, results, suggestions and showSuggestions as they were when
\* handleSearch was called (a suggestion click has hidden the overlay by
\* then).
C5_BlankSubmitIsNoOp ==
    [][/\ (ev'.op \in {"enter", "send"} /\ Blank(query)) =>
              UNCHANGED <<isLoading, results, suggestions, showSuggestions,
                          research, researchIssued>>
       /\ (ev'.op = "click" /\ Blank(query')) =>
              /\ UNCHANGED <<isLoading, results, suggestions,
                             research, researchIssued>>
              /\ showSuggestions' = FALSE]_vars

\* Enter on a whitespace-only query while the overlay flag is set
C5_Witness ==
    /\ ev.op = "enter"
    /\ Blank(query) /\ query # <<>>
    /\ showSuggestions
    /\ researchIssued = 0

\* C6: a submit of non-blank text t sets results to null, suggestions to
\* empty, showSuggestions to false and isLoading to true, issues exactly
\* one research request {query: t, max_sources: 10} and changes nothing
\* else (the query text is set by the suggestion click, not by the submit).
C6_SubmitEffect ==
    [][LET t == IF ev'.op = "click" THEN query' ELSE query
       IN  (ev'.op \in {"enter", "send", "click"} /\ ~Blank(t)) =>
               /\ results' = Null
               /\ suggestions' = <<>>
               /\ showSuggestions' = FALSE
               /\ isLoading' = TRUE
               /\ research' = Append(research, [query |-> t, max_sources |-> 10])
               /\ researchIssued' = researchIssued + 1
               /\ ev'.alert = "none"
               /\ (ev'.op # "click" => query' = query)
               /\ UNCHANGED <<uploadVars, suggest, ingest, timers,
                              suggestIssued, ingestIssued>>]_vars

\* a second submit from the text box, after the first request settled
C6_Witness ==
    /\ ev.op \in {"enter", "send"}
    /\ ~Blank(query)
    /\ researchIssued = 2
    /\ Len(research) = 1
    /\ research[1].query = query

\* C7: when a research request fails, the error notice is raised,
\* isLoading is false and results is null.
C7_FailureLeavesNoResult ==
    ev.op = "researchFail" =>
        ev.alert = "research" /\ ~isLoading /\ results = Null

\* C8 as stated: a click on a suggestion row sets query to its
\* suggested_query, hides the overlay and issues exactly one research
\* request for that text, whatever the text, and no suggestion request.
C8_ClickAlwaysSubmits ==
    [][ev'.op = "click" =>
          /\ \E i \in 1..Len(suggestions) : query' = suggestions[i].suggested_query
          /\ showSuggestions' = FALSE
          /\ research' = Append(research, [query |-> query', max_sources |-> 10])
          /\ researchIssued' = researchIssued + 1
          /\ UNCHANGED <<suggest, suggestIssued>>]_vars

\* C8, amended: a click on a suggestion row sets query to its
\* suggested_query and hides the overlay; it issues exactly one research
\* request for that text when the text is not blank after trimming and
\* none when it is; it issues no suggestion request.
C8_ClickSubmitsUnlessBlank ==
    [][ev'.op = "click" =>
          /\ \E i \in 1..Len(suggestions) : query' = suggestions[i].suggested_query
          /\ showSuggestions' = FALSE
          /\ IF Blank(query')
             THEN UNCHANGED <<research, researchIssued>>
             ELSE /\ research' = Append(research,
                         [query |-> query', max_sources |-> 10])
                  /\ researchIssued' = researchIssued + 1
          /\ UNCHANGED <<suggest, suggestIssued>>]_vars

\* a row is clicked while the text box holds another text
C8_Witness ==
    /\ ev.op = "click"
    /\ ~Blank(query)
    /\ Len(research) > 0
    /\ research[Len(research)].query = query
    /\ \E j \in 1..Len(suggest) : suggest[j].query # query

\* C9: a keystroke that sets the query to t issues exactly one suggestion
\* request for t when len(t) >= 3 and none when len(t) < 3, in which case
\* suggestions and showSuggestions stay; a request in flight leaves only by
\* settling, and an equal request already in flight suppresses nothing.
C9_KeystrokeSuggests ==
    [][/\ ev'.op = "change" =>
              IF Len(query') >= 3
              THEN /\ suggest' = Append(suggest, [query |-> query'])
                   /\ suggestIssued' = suggestIssued + 1
              ELSE UNCHANGED <<suggest, suggestIssued,
                               suggestions, showSuggestions>>
       /\ Len(suggest') < Len(suggest) =>
              ev'.op \in {"suggestOk", "suggestRefused", "suggestError"}]_vars

\* the same whitespace-only text typed twice: two equal requests in flight
C9_Witness ==
    /\ ev.op = "change"
    /\ Len(suggest) = 2
    /\ suggest[1] = suggest[2]
    /\ Blank(query)

\* C10: a suggestion request that settles with success=false or with a
\* network failure raises no alert and leaves query, suggestions,
\* showSuggestions, isLoading and results unchanged.
C10_SuggestFailureIsSilent ==
    [][ev'.op \in {"suggestRefused", "suggestError"} =>
          /\ ev'.alert = "none"
          /\ UNCHANGED <<query, suggestions, showSuggestions,
                         isLoading, results>>]_vars

\* a fetch fails while an earlier list is on display
C10_Witness ==
    /\ ev.op \in {"suggestRefused", "suggestError"}
    /\ OverlayShown

\* the upload side alone: nothing is typed or searched
SpecUpload == Init /\ [][NextUpload]_vars

\* C11: uploadedFiles is append-only: an upload that settles with
\* success=true appends its files, in selection order, to the end of the
\* list as it is then; no other step changes the list.
C11_UploadedFilesAppendOnly ==
    [][/\ ev'.op = "ingestOk" =>
              \E i \in 1..Len(ingest) :
                  /\ ingest' = RemoveAt(ingest, i)
                  /\ uploadedFiles' = uploadedFiles \o ingest[i]
                  /\ Len(uploadedFiles') = Len(uploadedFiles) + Len(ingest[i])
       /\ ev'.op # "ingestOk" => uploadedFiles' = uploadedFiles]_vars

\* a second successful upload, of two files, after a first of one
C11_Witness ==
    /\ ev.op = "ingestOk"
    /\ uploadedFiles = <<"f1", "f2", "f1">>

\* C12: an upload that settles without success (thrown error or a response
\* with success=false) raises the upload-error notice and leaves
\* uploadedFiles unchanged and uploadSuccess false; every settlement sets
\* isUploading to false.
C12_UploadFailureAlerts ==
    [][/\ ev'.op \in {"ingestRefused", "ingestError"} =>
              /\ ev'.alert = "upload"
              /\ uploadedFiles' = uploadedFiles
              /\ uploadSuccess' = FALSE
       /\ ev'.op \in {"ingestOk", "ingestRefused", "ingestError"} =>
              isUploading' = FALSE]_vars

\* the panel the render conditions select
ConsoleState(loading, report) ==
    IF loading THEN "Loading"
    ELSE IF report # Null THEN "Results" ELSE "Welcome"

\* C13: the console moves only Welcome -> Loading and Results -> Loading
\* by a submit, Loading -> Results by a successful response and
\* Loading -> Welcome by a failed one.
C13_ConsoleStateMachine ==
    [][LET from == ConsoleState(isLoading, results)
           to == ConsoleState(isLoading', results')
       IN  from # to =>
               \/ /\ from \in {"Welcome", "Results"}
                  /\ to = "Loading"
                  /\ ev'.op \in {"enter", "send", "click"}
               \/ /\ from = "Loading"
                  /\ to = "Results"
                  /\ ev'.op = "researchOk"
               \/ /\ from = "Loading"
                  /\ to = "Welcome"
                  /\ ev'.op = "researchFail"]_vars

\* the upload side, where a timer that is pending fires in the end
SpecUploadFair == SpecUpload /\ WF_vars(TimerFire)

\* C14: while uploadSuccess is true a clear-timer is pending, and
\* uploadSuccess, once true, becomes false again.
C14_BannerClears ==
    /\ [](uploadSuccess => timers > 0)
    /\ (uploadSuccess ~> ~uploadSuccess)

\* the banner of a second upload, with the timer of the first still pending
C14_Witness ==
    /\ uploadSuccess
    /\ ev.op = "ingestOk"
    /\ timers = 2

\* the lines of a text that are not empty
RECURSIVE NonEmptyLines(_)
NonEmptyLines(text) ==
    IF text = <<>> THEN <<>>
    ELSE IF Head(text) = <<>> THEN NonEmptyLines(Tail(text))
    ELSE <<Head(text)>> \o NonEmptyLines(Tail(text))

\* the pieces a text is put together from
Pieces(text) == UNION {{text[i][j] : j \in 1..Len(text[i])} : i \in 1..Len(text)}

\* C15: the markdown export, and identically the pdf export, is
\* '# Research Report', the summary, '## Key Findings' and one
\* '- <finding>' line per key finding in order, with no source title or
\* content; without results nothing is downloaded; an export changes no
\* state and issues no request.
C15_ExportText ==
    [][ev'.op = "export" =>
          /\ UNCHANGED <<queryVars, uploadVars, netVars, countVars, histVars>>
          /\ \A format \in Formats : Download(Null, format) = NoDownload
          /\ \A format \in {"pdf", "markdown"} :
                 ev'.download.name = <<"research-report.", format>> =>
                     LET report == results.research_report
                         text == ev'.download.content
                     IN  /\ ev'.download.download
                         /\ NonEmptyLines(text) =
                                << <<"# Research Report">>, <<report.summary>>,
                                   <<"## Key Findings">> >>
                                    \o [i \in 1..Len(report.key_findings) |->
                                            <<"- ", report.key_findings[i]>>]
                         /\ text[1] = <<"# Research Report">>
                         /\ \A i \in 1..Len(report.sources) :
                                /\ report.sources[i].title \notin Pieces(text)
                                /\ report.sources[i].content \notin Pieces(text)
                         /\ text = Download(results, "pdf").content
                         /\ text = Download(results, "markdown").content]_vars

\* the pdf export of a report with two findings and a source
C15_Witness ==
    /\ ev.op = "export"
    /\ ev.download.name = <<"research-report.", "pdf">>
    /\ Len(results.research_report.key_findings) = 2
    /\ Len(results.research_report.sources) = 1

\* C16: the response of a suggestion request is applied also when a
\* request issued after it has settled already, so the list of the
\* earlier request replaces that of the later one (last response wins).
C16_LastResponseWins ==
    [][Len(suggest') < Len(suggest) =>
          \A i \in 1..Len(suggest) :
              overtaken[i] =>
                  \A data \in Suggestion :
                      (data.success /\ SuggestResolve(i, data)) =>
                          /\ suggestions' = data.suggestions
                          /\ showSuggestions' = TRUE]_vars

\* the earlier request's row on display after the later request's response
\* was applied
C16_Witness ==
    /\ ev.op = "suggestOk"
    /\ ev.stale
    /\ suggestIssued = 2
    /\ suggest = <<>>
    /\ lastSettled = "rows"
    /\ OverlayShown

\* C17: a banner-clear timer is never cancelled: a pending timer goes away
\* only by firing, the start of an upload leaves the pending timers
\* pending, and a timer that fires sets uploadSuccess to false whichever
\* upload set it.
C17_TimerNeverCancelled ==
    [][/\ timers' < timers => ev'.op = "timer" /\ timers' = timers - 1
       /\ ev'.op = "upload" => timers' = timers
       /\ ev'.op = "timer" => uploadSuccess' = FALSE]_vars

\* two uploads succeeded before the first timer fired: it cleared the
\* banner of the second upload, whose own timer is still pending
C17_Witness ==
    /\ ev.op = "timer"
    /\ ingestIssued = 2
    /\ ingest = <<>>
    /\ timers = 1
    /\ ~uploadSuccess
    /\ Len(uploadedFiles) >= 2

\* both sides at once: one text is typed and submitted with Enter or by a
\* click on a suggestion row while one file at a time is uploaded
NextFrame ==
    \/ handleQueryChange(<<"a", "a", "a">>)
    \/ handleKeyPress("Enter", FALSE)
    \/ \E i \in 1..MaxItems : handleSuggestionClick(i)
    \/ \E i \in 1..MaxResearch, data \in ResearchResult : ResearchResolve(i, data)
    \/ \E i \in 1..MaxResearch : ResearchReject(i)
    \/ \E i \in 1..MaxSuggest, data \in Suggestion : SuggestResolve(i, data)
    \/ \E i \in 1..MaxSuggest : SuggestReject(i)
    \/ handleFileUpload(<<"f1">>)
    \/ \E i \in 1..MaxUploads, success \in BOOLEAN : IngestResolve(i, success)
    \/ \E i \in 1..MaxUploads : IngestReject(i)
    \/ TimerFire

SpecFrame == Init /\ [][NextFrame]_vars

\* C18: the upload actions leave query, isLoading, results, suggestions and
\* showSuggestions unchanged; a research settlement leaves query,
\* suggestions, showSuggestions and the upload state unchanged; a
\* suggestion settlement leaves query, isLoading, results and the upload
\* state unchanged.
C18_OwnSliceOnly ==
    [][/\ ev'.op \in {"upload", "ingestOk", "ingestRefused", "ingestError",
                      "timer"} =>
              UNCHANGED <<query, isLoading, results, suggestions,
                          showSuggestions>>
       /\ ev'.op \in {"researchOk", "researchFail"} =>
              UNCHANGED <<query, suggestions, showSuggestions,
                          uploadedFiles, isUploading, uploadSuccess>>
       /\ ev'.op \in {"suggestOk", "suggestRefused", "suggestError"} =>
              UNCHANGED <<query, isLoading, results,
                          uploadedFiles, isUploading, uploadSuccess>>]_vars

\* an upload starts with a report and a suggestion list on display
C18_Witness ==
    /\ ev.op = "upload"
    /\ isUploading
    /\ results # Null
    /\ OverlayShown
    /\ Len(uploadedFiles) > 0

\* the query side of a user who never clicks a suggestion row
NextNoClick ==
    \/ \E value \in Texts : handleQueryChange(value)
    \/ \E key \in Keys, shiftKey \in BOOLEAN : handleKeyPress(key, shiftKey)
    \/ SendClick
    \/ \E i \in 1..MaxResearch, data \in ResearchResult : ResearchResolve(i, data)
    \/ \E i \in 1..MaxResearch : ResearchReject(i)
    \/ \E i \in 1..MaxSuggest, data \in Suggestion : SuggestResolve(i, data)
    \/ \E i \in 1..MaxSuggest : SuggestReject(i)

SpecNoClick == Init /\ [][NextNoClick]_vars

\* C19: without a click on a suggestion row at most one research request
\* is in flight, and isLoading is true exactly while it is.
C19_OneRequestWithoutClick ==
    /\ Len(research) <= 1
    /\ isLoading <=> Len(research) = 1

\* a second request in flight alone, with the overlay open over the
\* spinner and no row clicked
C19_Witness ==
    /\ isLoading
    /\ Len(research) = 1
    /\ researchIssued = 2
    /\ OverlayShown

\* a research request in flight settles
ResearchSettle ==
    \/ \E i \in 1..MaxResearch, data \in ResearchResult : ResearchResolve(i, data)
    \/ \E i \in 1..MaxResearch : ResearchReject(i)

\* the query side, where a request that was issued settles in the end
SpecQueryFair == SpecQuery /\ WF_vars(ResearchSettle)

\* C20: isLoading is false whenever no research request is in flight, and
\* the console, once loading, stops loading (the query box is enabled
\* again).
C20_LoadingEnds ==
    /\ [](Len(research) = 0 => ~isLoading)
    /\ (isLoading ~> ~isLoading)

\* the second of two requests has failed and nothing is in flight
C20_Witness ==
    /\ ev.op = "researchFail"
    /\ research = <<>>
    /\ researchIssued = 2
    /\ ~isLoading

====
